---- MODULE Spec2Model ----
(***************************************************************************)
(* Model of the Pilot Browser backend (website-deployer/pilot-browser).    *)
(*                                                                         *)
(* Part 1: SearchService.search, the multi-provider search aggregation of  *)
(* backend/app/services/search_service.py.  One search() call is a         *)
(* coroutine: it resolves the provider list, creates one _search_provider  *)
(* coroutine per provider, awaits asyncio.gather over them and then        *)
(* collects, deduplicates, ranks and paginates in one uninterrupted step.  *)
(* Each _search_provider coroutine runs without suspending up to its HTTP  *)
(* request (_rate_limit never suspends) and resumes once when the response *)
(* arrives, times out or the connection fails.                             *)
(*                                                                         *)
(* Scores are Python floats with two or three decimals; they are kept here *)
(* as integers in thousandths (1.0 is 1000, 0.01 is 10, 0.005 is 5).       *)
(* An item keeps the three fields the merge reads: url, provider, score.   *)
(***************************************************************************)
EXTENDS Integers, Sequences, FiniteSets, TLC

\* ---------------------------------------------------------------- bounds
\* Most raw entries in one upstream payload, for requests over all providers.
MaxItems == 1
\* Most raw entries in one upstream payload, for requests over google and bing.
MaxLongItems == 2
\* Largest limit of a request (0 is the smallest: the service does not validate).
MaxLimit == 2
\* Largest offset of a request.
MaxOffset == 2

\* ------------------------------------------------------- provider registry
\* The SearchProvider enum, in declaration order.
SearchProvider ==
  <<"google", "bing", "duckduckgo", "reddit", "github", "twitter", "youtube", "wikipedia">>

\* The keys of the SEARCH_PROVIDERS registry.
SEARCH_PROVIDERS == {"google", "bing", "duckduckgo", "reddit", "github"}

\* provider_config.get("response_parser", "parse_basic_results")
response_parser(provider) ==
  CASE provider = "google" -> "parse_google_results"
    [] provider = "bing" -> "parse_bing_results"
    [] provider = "duckduckgo" -> "parse_duckduckgo_results"
    [] provider = "reddit" -> "parse_reddit_results"
    [] provider = "github" -> "parse_github_results"
    [] OTHER -> "parse_basic_results"

\* ------------------------------------------------------------ input domains
U1 == "https://reddit.com/r/a"
U2 == "https://b.example/"
\* Link values of an upstream entry; "" is a missing or empty link field.
Urls == {"", U1, U2}

SeqsUpTo(S, n) == UNION {[1..k -> S] : k \in 0..n}

\* RelatedTopics entries of DuckDuckGo: a topic group has no FirstURL key.
Topics == {[has_first_url |-> FALSE, first_url |-> ""],
           [has_first_url |-> TRUE, first_url |-> U2]}

\* children of a Reddit listing: kind, data.url, data.permalink.
RedditPosts == {[kind |-> "t3", url |-> "x", permalink |-> "/r/a"],
                [kind |-> "t3", url |-> "x", permalink |-> ""],
                [kind |-> "t3", url |-> "", permalink |-> "/r/a"],
                [kind |-> "t1", url |-> "x", permalink |-> "/r/a"]}

\* The JSON bodies a provider may answer with.
Payloads(provider, n) ==
  CASE provider = "duckduckgo" ->
         {[Results |-> r, RelatedTopics |-> t] :
            <<r, t>> \in {x \in SeqsUpTo(Urls, n) \X SeqsUpTo(Topics, n) :
                            Len(x[1]) + Len(x[2]) <= n}}
    [] provider = "reddit" -> SeqsUpTo(RedditPosts, n)
    [] OTHER -> SeqsUpTo(Urls, n)

\* Provider ids a request may name: the registry and one enum member that
\* has no registry entry.
ReqIds == SEARCH_PROVIDERS \cup {"twitter"}

\* Provider lists of the requests: one or two ids, in any order, repeats allowed.
ListsOver(ids) == {<<p>> : p \in ids} \cup {<<p, q>> : <<p, q>> \in ids \X ids}
RequestLists == ListsOver(ReqIds)
\* The requests over the two primary web providers, whose scores tie by rank.
LongRequestLists == ListsOver({"google", "bing"})

\* ------------------------------------------------------------------ parsers
Item(url, provider, score) == [url |-> url, provider |-> provider, score |-> score]

\* A dict returned by _search_provider, or the exception it raised.
Result(items, error) == [exc |-> FALSE, items |-> items, error |-> error]
Raised(error) == [exc |-> TRUE, items |-> <<>>, error |-> error]
NoResult == [exc |-> FALSE, items |-> <<>>, error |-> "<pending>"]

parse_google_results(data, provider) ==
  Result([i \in 1..Len(data) |-> Item(data[i], provider, 1000 - (i - 1) * 10)], "")

parse_bing_results(data, provider) ==
  Result([i \in 1..Len(data) |-> Item(data[i], provider, 1000 - (i - 1) * 10)], "")

parse_duckduckgo_results(data, provider) ==
  LET web == [i \in 1..Len(data.Results) |->
                Item(data.Results[i], provider, 900 - (i - 1) * 10)]
      topics == data.RelatedTopics
      related == [i \in 1..Len(topics) |->
                    Item(topics[i].first_url, "duckduckgo_related", 800 - (i - 1) * 5)]
      kept == {i \in 1..Len(topics) : topics[i].has_first_url}
      Keep[i \in 0..Len(topics)] ==
        IF i = 0 THEN <<>>
        ELSE IF i \in kept THEN Append(Keep[i - 1], related[i]) ELSE Keep[i - 1]
  IN  Result(web \o Keep[Len(topics)], "")

\* f"https://reddit.com{permalink}"
RedditUrl(permalink) ==
  CASE permalink = "/r/a" -> "https://reddit.com/r/a"
    [] OTHER -> "https://reddit.com"

parse_reddit_results(data, provider) ==
  LET Keep[i \in 0..Len(data)] ==
        IF i = 0 THEN <<>>
        ELSE IF data[i].kind # "t3" \/ data[i].url = "" THEN Keep[i - 1]
        ELSE Append(Keep[i - 1],
                    Item(RedditUrl(data[i].permalink), provider, 800 - (i - 1) * 10))
  IN  Result(Keep[Len(data)], "")

parse_github_results(data, provider) ==
  Result([i \in 1..Len(data) |-> Item(data[i], provider, 800 - (i - 1) * 10)], "")

parse_basic_results(data, provider) ==
  [exc |-> FALSE, items |-> <<>>, total_results |-> 0, error |-> "No parser available"]

\* getattr(self, parser_name, self.parse_basic_results)(response_data, provider, query)
Parse(provider, data) ==
  LET name == response_parser(provider) IN
  CASE name = "parse_google_results" -> parse_google_results(data, provider)
    [] name = "parse_bing_results" -> parse_bing_results(data, provider)
    [] name = "parse_duckduckgo_results" -> parse_duckduckgo_results(data, provider)
    [] name = "parse_reddit_results" -> parse_reddit_results(data, provider)
    [] name = "parse_github_results" -> parse_github_results(data, provider)
    [] OTHER -> parse_basic_results(data, provider)

\* ------------------------------------------------- search(): pure steps
\* ResolveProviders without the registry filter of line 163.
ResolveProvidersNoFilter(req_providers) ==
  IF req_providers = <<>> THEN SearchProvider ELSE req_providers

\* Lines 158-163: default to every enum member, then keep the registered ids.
ResolveProviders(req_providers) ==
  LET defaulted == IF req_providers = <<>> THEN SearchProvider ELSE req_providers
  IN  SelectSeq(defaulted, LAMBDA p : p \in SEARCH_PROVIDERS)

\* gather handing the results over in the order the calls completed, as
\* asyncio.as_completed would.
gatherAsCompleted(results, order) == [k \in 1..Len(order) |-> results[order[k]]]

\* asyncio.gather(*search_tasks, return_exceptions=True) returns the results
\* in the order of the awaitables, whatever order they completed in.
gather(results, order) == results

EmptyMap == [p \in {} |-> ""]
Put(map, key, value) == [k \in DOMAIN map \cup {key} |-> IF k = key THEN value ELSE map[k]]

\* ProcessResults leaving the loop at the first failed provider instead of
\* going on to the next one.
ProcessResultsStopAtFailure(results, provs) ==
  LET Step[i \in 0..Len(results)] ==
        IF i = 0 THEN [aggregated |-> <<>>, errors |-> EmptyMap, stopped |-> FALSE]
        ELSE LET prev == Step[i - 1] IN
             IF prev.stopped THEN prev
             ELSE IF results[i].exc \/ results[i].error # ""
             THEN [prev EXCEPT !.errors = Put(@, provs[i], results[i].error),
                               !.stopped = TRUE]
             ELSE [prev EXCEPT !.aggregated = @ \o results[i].items]
  IN  Step[Len(results)]

\* Lines 186-199: the loop over enumerate(results).
ProcessResults(results, provs) ==
  LET Step[i \in 0..Len(results)] ==
        IF i = 0 THEN [aggregated |-> <<>>, errors |-> EmptyMap]
        ELSE LET prev == Step[i - 1] IN
             IF results[i].exc
             THEN [prev EXCEPT !.errors = Put(@, provs[i], results[i].error)]
             ELSE [prev EXCEPT !.aggregated = @ \o results[i].items]
  IN  Step[Len(results)]

\* Deduplicate that stops looking after the first duplicate it dropped.
DeduplicateFirstDuplicate(aggregated) ==
  LET Step[i \in 0..Len(aggregated)] ==
        IF i = 0 THEN [seen |-> {}, dropped |-> FALSE, deduped |-> <<>>]
        ELSE LET prev == Step[i - 1]
                 url == aggregated[i].url
             IN  IF url = "" THEN prev
                 ELSE IF url \in prev.seen /\ ~prev.dropped
                 THEN [prev EXCEPT !.dropped = TRUE]
                 ELSE [seen |-> prev.seen \cup {url}, dropped |-> prev.dropped,
                       deduped |-> Append(prev.deduped, aggregated[i])]
  IN  Step[Len(aggregated)].deduped

\* Deduplicate without the truthiness test of the url on line 207.
DeduplicateKeepEmpty(aggregated) ==
  LET Step[i \in 0..Len(aggregated)] ==
        IF i = 0 THEN [seen |-> {}, deduped |-> <<>>]
        ELSE LET prev == Step[i - 1]
                 url == aggregated[i].url
             IN  IF url \notin prev.seen
                 THEN [seen |-> prev.seen \cup {url},
                       deduped |-> Append(prev.deduped, aggregated[i])]
                 ELSE prev
  IN  Step[Len(aggregated)].deduped

\* Lines 201-209: keep the first item of every non-empty url.
Deduplicate(aggregated) ==
  LET Step[i \in 0..Len(aggregated)] ==
        IF i = 0 THEN [seen |-> {}, deduped |-> <<>>]
        ELSE LET prev == Step[i - 1]
                 url == aggregated[i].url
             IN  IF url # "" /\ url \notin prev.seen
                 THEN [seen |-> prev.seen \cup {url},
                       deduped |-> Append(prev.deduped, aggregated[i])]
                 ELSE prev
  IN  Step[Len(aggregated)].deduped

\* provider_rank with 0 as the default of the table lookup.
provider_rank_default_first(label) ==
  CASE label = "google" -> 1
    [] label = "bing" -> 2
    [] label = "duckduckgo" -> 3
    [] label = "reddit" -> 4
    [] label = "github" -> 5
    [] OTHER -> 0

\* Lines 216-222: the provider_rank table and its default.
provider_rank(label) ==
  CASE label = "google" -> 1
    [] label = "bing" -> 2
    [] label = "duckduckgo" -> 3
    [] label = "reddit" -> 4
    [] label = "github" -> 5
    [] OTHER -> 10

\* Lines 212-223: (-score, provider_rank).
get_sort_key(item) == <<0 - item.score, provider_rank(item.provider)>>

\* Python's ordering of two key tuples.
KeyLess(a, b) == a[1] < b[1] \/ (a[1] = b[1] /\ a[2] < b[2])

\* sorted(seq, key=get_sort_key): a stable sort, here by insertion; an item
\* goes after every item already placed whose key is not greater.
sorted(seq) ==
  LET Insert(s, x) ==
        LET k == Cardinality({j \in 1..Len(s) :
                                ~KeyLess(get_sort_key(x), get_sort_key(s[j]))})
        IN  SubSeq(s, 1, k) \o <<x>> \o SubSeq(s, k + 1, Len(s))
      Step[i \in 0..Len(seq)] ==
        IF i = 0 THEN <<>> ELSE Insert(Step[i - 1], seq[i])
  IN  Step[Len(seq)]

Min(a, b) == IF a <= b THEN a ELSE b

\* seq[start:stop] for non-negative start and stop.
Slice(seq, start, stop) ==
  LET lo == Min(start, Len(seq))
      hi == Min(stop, Len(seq))
  IN  IF hi <= lo THEN <<>> ELSE SubSeq(seq, lo + 1, hi)

\* Paginate with the limit taken for the end of the slice.
PaginateStopAtLimit(ranked, off, lim) == Slice(ranked, off, lim)

\* Line 228.
Paginate(ranked, off, lim) == Slice(ranked, off, off + lim)

\* TotalResults counting the page instead of the ranked list.
TotalResultsOfPage(ranked, page) == Len(page)

\* Line 232.
TotalResults(ranked, page) == Len(ranked)

\* Line 237: provider_errors if provider_errors else None.
ErrorsOrNone(errors) == [is_none |-> DOMAIN errors = {}, entries |-> errors]

\* The two steps every provider call takes on its way to the upstream API,
\* logged in the order the code takes them.
\* Line 314: await self._rate_limit(provider); lines 348-352.
rate_limit(log) == Append(log, "_rate_limit")
\* Lines 316-323: session.get(config["base_url"], ...).
session_get(log) == Append(log, "session.get")

\* The request sent before the gate is asked.
CallStepsRequestFirst(log) == rate_limit(session_get(log))

\* Lines 313-323.
CallSteps(log) == session_get(rate_limit(log))

\* asyncio.wait(..., return_when=FIRST_COMPLETED) in place of the gather.
AnySettled(st) == \E i \in 1..Len(st) : st[i] = "settled"

\* Line 184: `await asyncio.gather(*tasks, return_exceptions=True)` resumes
\* search() when every awaitable has a result or an exception.
AllSettled(st) == \A i \in 1..Len(st) : st[i] = "settled"

NoPager == [active |-> FALSE, provider |-> "", upstream |-> <<>>, limit |-> 1,
            offset |-> 0, pages |-> <<>>]
NoParsed == [provider |-> "", items |-> <<>>]
NoHttp == [code |-> 0, total_results |-> 0, results |-> <<>>]
\* The tasks table with no row.
NoTasks == [id \in {} |-> [status |-> "", error |-> ""]]
\* execute_task has not returned.
NoTaskResult == [returned |-> FALSE, success |-> FALSE, error |-> "", errors |-> <<>>]
NoReply == [op |-> "", user |-> "", task_id |-> 0, code |-> 0, status |-> "", listed |-> {}]

NoResponse ==
  [total_results |-> 0, page |-> 0, page_size |-> 0, results |-> <<>>,
   providers_used |-> <<>>, provider_errors |-> ErrorsOrNone(EmptyMap)]

\* ------------------------------------------------------------------- state
VARIABLES
  phase,               \* "idle", "gathering", "done" (returned) or "raised"
  request,             \* the arguments of the call: providers, limit, offset
  providers,           \* the resolved provider list (local `providers`)
  status,              \* per call: "pending", "issued", "settled" or "cancelled"
  outcome,             \* per call: what _search_provider returned or raised
  completion_order,    \* call indexes in the order the calls settled
  gate_calls,          \* per call: number of _rate_limit calls
  requests,            \* per call: number of session.get requests
  call_log,            \* per call: the gate and request steps in the order taken
  results,             \* locals of search(), as left by the merge
  aggregated_results,
  deduped_results,
  sorted_results,
  response,            \* the dict search() returned
  error,               \* the exception search() raised, "" if none
  pager,               \* a client paging through one query, page by page
  parsed,              \* the provider and the item list of one parser call
  http,                \* the reply of the POST search endpoint
  task_store,          \* api/agent.py: task id -> the stored AgentTask
  created,             \* number of agent tasks created so far
  queued,              \* ids whose process_agent_task has not run yet
  deleted,             \* ids delete_agent_task has removed
  reply,               \* the last agent request or background run and its outcome
  tasks,               \* the tasks table: task id -> status and error of the row
  pc,                  \* where the background run of execute_task stands
  context,             \* the AgentContext of the run: its errors
  executed,            \* the agents whose execute() the run has called, in order
  task_result,         \* the dict execute_task returned
  task_reply           \* the last request on the task and its status code

vars == <<phase, request, providers, status, outcome, completion_order, gate_calls,
          requests, call_log, results, aggregated_results, deduped_results,
          sorted_results, response, error, pager, parsed, http,
          task_store, created, queued, deleted, reply,
         tasks, pc, context, executed, task_result, task_reply>>

merge_vars == <<results, aggregated_results, deduped_results, sorted_results, response>>
agent_vars == <<task_store, created, queued, deleted, reply>>
pipeline_vars == <<tasks, pc, context, executed, task_result, task_reply>>
api_vars == <<http, agent_vars, pipeline_vars>>
aux_vars == <<pager, parsed, api_vars>>

Init ==
  /\ phase = "idle"
  /\ request = [providers |-> <<>>, limit |-> 1, offset |-> 0]
  /\ providers = <<>>
  /\ status = <<>>
  /\ outcome = <<>>
  /\ completion_order = <<>>
  /\ gate_calls = <<>>
  /\ requests = <<>>
  /\ call_log = <<>>
  /\ results = <<>>
  /\ aggregated_results = <<>>
  /\ deduped_results = <<>>
  /\ sorted_results = <<>>
  /\ response = NoResponse
  /\ error = ""
  /\ pager = NoPager
  /\ parsed = NoParsed
  /\ http = NoHttp
  /\ task_store = EmptyMap
  /\ created = 0
  /\ queued = {}
  /\ deleted = {}
  /\ reply = NoReply
  /\ tasks = NoTasks
  /\ pc = "none"
  /\ context = [errors |-> <<>>]
  /\ executed = <<>>
  /\ task_result = NoTaskResult
  /\ task_reply = [op |-> "", code |-> 0]

\* ----------------------------------------------------------------- actions
\* search() up to `await asyncio.gather` (lines 155-184).
SearchFrom(lists) ==
  /\ phase = "idle"
  /\ \E req_providers \in lists, lim \in 0..MaxLimit, off \in 0..MaxOffset :
       LET resolved == ResolveProviders(req_providers) IN
       /\ request' = [providers |-> req_providers, limit |-> lim, offset |-> off]
       /\ providers' = resolved
       /\ IF resolved = <<>>
          THEN /\ phase' = "raised"
               /\ error' = "ValueError: No valid search providers specified"
          ELSE /\ phase' = "gathering"
               /\ error' = ""
       /\ status' = [i \in 1..Len(resolved) |-> "pending"]
       /\ outcome' = [i \in 1..Len(resolved) |-> NoResult]
       /\ gate_calls' = [i \in 1..Len(resolved) |-> 0]
       /\ requests' = [i \in 1..Len(resolved) |-> 0]
       /\ call_log' = [i \in 1..Len(resolved) |-> <<>>]
  /\ UNCHANGED <<completion_order, merge_vars, aux_vars>>

Search == SearchFrom(RequestLists)
SearchLong == SearchFrom(LongRequestLists)

\* A call that failed is put back to be made once more.
SettleOrRetry(i, result) ==
  IF ~result.exc /\ result.error # "" /\ requests[i] < 2
  THEN /\ status' = [status EXCEPT ![i] = "pending"]
       /\ UNCHANGED <<outcome, completion_order>>
  ELSE /\ status' = [status EXCEPT ![i] = "settled"]
       /\ outcome' = [outcome EXCEPT ![i] = result]
       /\ completion_order' = Append(completion_order, i)

\* The call returns or raises (lines 272, 329, 338, 342, 346): its one
\* result is what the gather keeps for it.
Settle(i, result) ==
  /\ status' = [status EXCEPT ![i] = "settled"]
  /\ outcome' = [outcome EXCEPT ![i] = result]
  /\ completion_order' = Append(completion_order, i)

\* _search_provider from its start to the suspension in session.get
\* (lines 267-323): registry lookup, parameter formatting, rate-limit gate,
\* request.  page=(offset // limit) + 1 divides by the limit.
StartCall(i) ==
  /\ phase = "gathering"
  /\ status[i] = "pending"
  /\ IF providers[i] \notin SEARCH_PROVIDERS
     THEN /\ Settle(i, Raised("Unsupported search provider"))
          /\ UNCHANGED <<gate_calls, requests, call_log>>
     ELSE IF request.limit = 0
     THEN /\ Settle(i, Raised("integer division or modulo by zero"))
          /\ UNCHANGED <<gate_calls, requests, call_log>>
     ELSE /\ gate_calls' = [gate_calls EXCEPT ![i] = @ + 1]
          /\ requests' = [requests EXCEPT ![i] = @ + 1]
          /\ call_log' = [call_log EXCEPT ![i] = CallSteps(@)]
          /\ status' = [status EXCEPT ![i] = "issued"]
          /\ UNCHANGED <<outcome, completion_order>>
  /\ UNCHANGED <<phase, request, providers, merge_vars, error, aux_vars>>

\* A 200 response: parse it (lines 331-338).
RespondWith(i, n) ==
  /\ phase = "gathering"
  /\ status[i] = "issued"
  /\ \E data \in Payloads(providers[i], n) : Settle(i, Parse(providers[i], data))
  /\ UNCHANGED <<phase, request, providers, gate_calls, requests, call_log,
                 merge_vars, error, aux_vars>>

Respond(i) == RespondWith(i, MaxItems)
RespondLong(i) == RespondWith(i, MaxLongItems)

\* A response whose status is not 200 (lines 324-329).
RespondError(i) ==
  /\ phase = "gathering"
  /\ status[i] = "issued"
  /\ Settle(i, Result(<<>>, "API error: 500"))
  /\ UNCHANGED <<phase, request, providers, gate_calls, requests, call_log,
                 merge_vars, error, aux_vars>>

\* The 10 s ClientTimeout expires (lines 340-342).
Timeout(i) ==
  /\ phase = "gathering"
  /\ status[i] = "issued"
  /\ Settle(i, Result(<<>>, "Request timed out"))
  /\ UNCHANGED <<phase, request, providers, gate_calls, requests, call_log,
                 merge_vars, error, aux_vars>>

\* Any other exception of the request (lines 344-346).
NetworkError(i) ==
  /\ phase = "gathering"
  /\ status[i] = "issued"
  /\ Settle(i, Result(<<>>, "Cannot connect to host"))
  /\ UNCHANGED <<phase, request, providers, gate_calls, requests, call_log,
                 merge_vars, error, aux_vars>>

\* search() after the gather (lines 184-238): collect, deduplicate, rank,
\* paginate, assemble.  (offset // limit) + 1 raises when limit is 0.
Merge ==
  /\ phase = "gathering"
  /\ AllSettled(status)
  /\ LET gathered == gather(outcome, completion_order)
         processed == ProcessResults(gathered, providers)
         deduped == Deduplicate(processed.aggregated)
         ranked == sorted(deduped)
         page == Paginate(ranked, request.offset, request.limit)
     IN  /\ results' = gathered
         /\ aggregated_results' = processed.aggregated
         /\ deduped_results' = deduped
         /\ sorted_results' = ranked
         /\ IF request.limit = 0
            THEN /\ phase' = "raised"
                 /\ error' = "ZeroDivisionError: integer division or modulo by zero"
                 /\ response' = response
            ELSE /\ phase' = "done"
                 /\ error' = error
                 /\ response' =
                      [total_results |-> TotalResults(ranked, page),
                       page |-> (request.offset \div request.limit) + 1,
                       page_size |-> request.limit,
                       results |-> page,
                       providers_used |-> providers,
                       provider_errors |-> ErrorsOrNone(processed.errors)]
  /\ UNCHANGED <<request, providers, status, outcome, completion_order, gate_calls,
                 requests, call_log, aux_vars>>

Next ==
  \/ Search
  \/ \E i \in 1..Len(providers) : StartCall(i)
  \/ \E i \in 1..Len(providers) : Respond(i)
  \/ \E i \in 1..Len(providers) : RespondError(i)
  \/ \E i \in 1..Len(providers) : Timeout(i)
  \/ \E i \in 1..Len(providers) : NetworkError(i)
  \/ Merge

\* Requests over every provider id, short payloads.
Spec == Init /\ [][Next]_vars

NextLong ==
  \/ SearchLong
  \/ \E i \in 1..Len(providers) : StartCall(i)
  \/ \E i \in 1..Len(providers) : RespondLong(i)
  \/ \E i \in 1..Len(providers) : RespondError(i)
  \/ \E i \in 1..Len(providers) : Timeout(i)
  \/ \E i \in 1..Len(providers) : NetworkError(i)
  \/ Merge

\* Requests over google and bing, longer payloads.
SpecLong == Init /\ [][NextLong]_vars

\* ------------------------------------------------------------------ paging
\* A client pages through one query: the same search at offsets 0, limit,
\* 2*limit, ... against a provider whose ranked result list does not change.
MaxUpstream == 3

\* Providers of the paging sessions: two that are sent paging parameters and
\* one that is not.
PagedProviders == {"bing", "github", "duckduckgo"}
U3 == "https://c.example/"
\* The ranked result lists of the upstream: no link twice.
Upstreams ==
  {u \in SeqsUpTo({U1, U2, U3}, MaxUpstream) :
     \A j, k \in 1..Len(u) : j # k => u[j] # u[k]}

\* Lines 281-298 with the params templates of the registry (lines 27-97):
\* the window of its own result list a provider is asked for.  Google gets
\* num/start, Bing count/offset, Reddit limit/after, GitHub per_page/page
\* with page=(offset // limit) + 1; DuckDuckGo has no paging parameter.
PagingParams(provider, lim, off) ==
  CASE provider \in {"google", "bing", "reddit"} ->
         [paged |-> TRUE, count |-> lim, skip |-> off]
    [] provider = "github" ->
         [paged |-> TRUE, count |-> lim, skip |-> ((off \div lim) + 1 - 1) * lim]
    [] OTHER -> [paged |-> FALSE, count |-> 0, skip |-> 0]

\* The upstream API applies the paging parameters it was sent.
UpstreamPage(upstream, params) ==
  IF params.paged THEN Slice(upstream, params.skip, params.skip + params.count)
  ELSE upstream

\* The JSON body carrying these links.
PayloadOf(provider, links) ==
  IF provider = "duckduckgo" THEN [Results |-> links, RelatedTopics |-> <<>>]
  ELSE links

\* search() with one provider that answers 200 (lines 128-238): what the
\* caller gets for this window.
SearchPage(provider, upstream, lim, off) ==
  LET resolved == ResolveProviders(<<provider>>)
      data == PayloadOf(provider, UpstreamPage(upstream, PagingParams(provider, lim, off)))
      gathered == gather(<<Parse(provider, data)>>, <<1>>)
      processed == ProcessResults(gathered, resolved)
      ranked == sorted(Deduplicate(processed.aggregated))
      page == Paginate(ranked, off, lim)
  IN  [results |-> [k \in 1..Len(page) |-> page[k].url], total_results |-> TotalResults(ranked, page)]

DistinctUrls(seq) == {seq[k] : k \in 1..Len(seq)} \ {""}

OpenPager ==
  /\ phase = "idle"
  /\ ~pager.active
  /\ \E provider \in PagedProviders, upstream \in Upstreams, lim \in 1..MaxLimit :
       pager' = [active |-> TRUE, provider |-> provider, upstream |-> upstream,
                 limit |-> lim, offset |-> 0, pages |-> <<>>]
  /\ UNCHANGED <<phase, request, providers, status, outcome, completion_order,
                 gate_calls, requests, call_log, merge_vars, error, parsed, api_vars>>

\* The next page, as long as the upstream has results beyond the pages asked for.
NextPage ==
  /\ pager.active
  /\ pager.offset < Cardinality(DistinctUrls(pager.upstream))
  /\ pager' = [pager EXCEPT
       !.pages = Append(@, SearchPage(pager.provider, pager.upstream,
                                      pager.limit, pager.offset).results),
       !.offset = @ + pager.limit]
  /\ UNCHANGED <<phase, request, providers, status, outcome, completion_order,
                 gate_calls, requests, call_log, merge_vars, error, parsed, api_vars>>

NextPages ==
  \/ OpenPager
  \/ NextPage

\* One client paging through one provider.
SpecPages == Init /\ [][NextPages]_vars

\* ------------------------------------------------------- provider defaulting
\* Requests without a provider list, with only unregistered ids, and with
\* registered and unregistered ids mixed.
DefaultRequestLists ==
  {<<>>, <<"youtube">>, <<"twitter", "github", "wikipedia", "bing">>}

SearchDefault == SearchFrom(DefaultRequestLists)
\* A 200 response without result entries.
RespondEmpty(i) == RespondWith(i, 0)

NextDefault ==
  \/ SearchDefault
  \/ \E i \in 1..Len(providers) : StartCall(i)
  \/ \E i \in 1..Len(providers) : RespondEmpty(i)
  \/ \E i \in 1..Len(providers) : Timeout(i)
  \/ Merge

\* Requests that leave the provider list out, empty responses.
SpecDefault == Init /\ [][NextDefault]_vars

\* -------------------------------------------------------- fallback parser
\* The registry of the source names a parser for each of its five providers.
\* Lines 335-336 also serve an entry without "response_parser", or one that
\* names a method the service does not have: such an entry is parsed by
\* parse_basic_results.  Unparsed is the set of providers with such an entry.
Unparsed == {"github"}

ParseUnless(missing, provider, data) ==
  IF provider \in missing THEN parse_basic_results(data, provider)
  ELSE Parse(provider, data)

SearchFallback == SearchFrom(ListsOver({"github", "bing"}))

\* A 200 response, parsed with the registry whose github entry has no parser.
RespondUnparsed(i) ==
  /\ phase = "gathering"
  /\ status[i] = "issued"
  /\ \E data \in Payloads(providers[i], MaxItems) :
       Settle(i, ParseUnless(Unparsed, providers[i], data))
  /\ UNCHANGED <<phase, request, providers, gate_calls, requests, call_log,
                 merge_vars, error, aux_vars>>

NextFallback ==
  \/ SearchFallback
  \/ \E i \in 1..Len(providers) : StartCall(i)
  \/ \E i \in 1..Len(providers) : RespondUnparsed(i)
  \/ \E i \in 1..Len(providers) : Timeout(i)
  \/ Merge

\* Requests over github and bing, github without a parser.
SpecFallback == Init /\ [][NextFallback]_vars

\* ------------------------------------------------------------ cancellation
\* The task that runs search() is cancelled while it waits in the gather
\* (line 184).  gather cancels every awaitable that is not done, the
\* CancelledError is raised at the await, and search() has no handler for
\* it: the lines after the gather do not run.
OnCancelled(st) ==
  [i \in DOMAIN st |-> IF st[i] = "settled" THEN "settled" ELSE "cancelled"]

Cancel ==
  /\ phase = "gathering"
  /\ phase' = "raised"
  /\ error' = "CancelledError"
  /\ status' = OnCancelled(status)
  /\ UNCHANGED <<request, providers, outcome, completion_order, gate_calls,
                 requests, call_log, merge_vars, aux_vars>>

NextCancel ==
  \/ Search
  \/ \E i \in 1..Len(providers) : StartCall(i)
  \/ \E i \in 1..Len(providers) : Respond(i)
  \/ \E i \in 1..Len(providers) : RespondError(i)
  \/ \E i \in 1..Len(providers) : Timeout(i)
  \/ \E i \in 1..Len(providers) : NetworkError(i)
  \/ Merge
  \/ Cancel

\* The searches of Spec, each of which its caller may cancel.
SpecCancel == Init /\ [][NextCancel]_vars

\* ------------------------------------------------------------ parser scores
\* One parser call on a payload of up to MaxPayload entries.  The scores are
\* kept in thousandths: 1.0 - (i * 0.01) is 1000 - i * 10.
MaxPayload == 102

\* Payloads of n entries that every parser keeps; the long ones are those of
\* the parsers that score by position alone.
LongPayloads(provider) ==
  CASE provider = "duckduckgo" ->
         {[Results |-> [k \in 1..n |-> U2],
           RelatedTopics |-> [k \in 1..m |-> [has_first_url |-> TRUE, first_url |-> U1]]] :
            n \in 0..MaxPayload, m \in 0..MaxItems}
    [] provider = "reddit" ->
         {[k \in 1..n |-> [kind |-> "t3", url |-> "x", permalink |-> "/r/a"]] :
            n \in 0..MaxLongItems}
    [] OTHER -> {[k \in 1..n |-> U2] : n \in 0..MaxPayload}

ParsePayload ==
  /\ phase = "idle"
  /\ parsed = NoParsed
  /\ \E provider \in SEARCH_PROVIDERS : \E data \in LongPayloads(provider) :
       parsed' = [provider |-> provider, items |-> Parse(provider, data).items]
  /\ UNCHANGED <<phase, request, providers, status, outcome, completion_order,
                 gate_calls, requests, call_log, merge_vars, error, pager, api_vars>>

NextScores == ParsePayload

\* The parsers on long payloads.
SpecScores == Init /\ [][NextScores]_vars

\* ------------------------------------------------------ POST search endpoint
\* api/search.py, search(): the SearchQuery model admits limit 1..100 and
\* offset >= 0; the endpoint awaits SearchService.search and builds its
\* reply from the returned dict, or answers 500 when search() raised.
\* dict.get(key, default) on the dict search() returned.
DictGet(dict, key, default) == IF key \in DOMAIN dict THEN dict[key] ELSE default

SearchApi ==
  /\ SearchFrom(RequestLists)
  /\ request'.limit >= 1

\* Lines 54-65 of api/search.py.
SearchEndpoint ==
  /\ phase \in {"done", "raised"}
  /\ http = NoHttp
  /\ http' = IF phase = "done"
             THEN [code |-> 200,
                   total_results |-> DictGet(response, "total_results", 0),
                   results |-> DictGet(response, "items", <<>>)]
             ELSE [code |-> 500, total_results |-> 0, results |-> <<>>]
  /\ UNCHANGED <<phase, request, providers, status, outcome, completion_order,
                 gate_calls, requests, call_log, merge_vars, error, pager, parsed,
                 agent_vars, pipeline_vars>>

NextApi ==
  \/ SearchApi
  \/ \E i \in 1..Len(providers) : StartCall(i)
  \/ \E i \in 1..Len(providers) : Respond(i)
  \/ \E i \in 1..Len(providers) : RespondError(i)
  \/ \E i \in 1..Len(providers) : Timeout(i)
  \/ \E i \in 1..Len(providers) : NetworkError(i)
  \/ Merge
  \/ SearchEndpoint

\* The searches of Spec as the POST endpoint runs them.
SpecApi == Init /\ [][NextApi]_vars

\* ------------------------------------------------------------- agent tasks
\* api/agent.py: the endpoints over the in-memory task_store and the
\* background processor.  No handler awaits anything between reading and
\* writing task_store, so each runs as one step.
MaxTasks == 2

\* The callers: two ordinary users and a superuser.
Users == {"alice", "bob", "root"}
is_superuser(user) == user = "root"
\* The users that create tasks.
Creators == {"alice", "bob"}
AgentTaskStatus == {"pending", "running", "completed", "failed", "canceled", "paused"}
\* AgentTaskUpdate.status as the requests give it: a status, or "" for a
\* status that is not given.
UpdateStatuses == {"", "running", "completed"}

search_vars == <<phase, request, providers, status, outcome, completion_order,
                 gate_calls, requests, call_log, merge_vars, error>>
other_vars == <<search_vars, pager, parsed, http, pipeline_vars>>

Reply(op, user, task_id, code, task_status, listed) ==
  [op |-> op, user |-> user, task_id |-> task_id, code |-> code,
   status |-> task_status, listed |-> listed]

\* dict without the key: del task_store[task_id].
Remove(map, key) == [k \in DOMAIN map \ {key} |-> map[k]]

\* The permission test without the ownership comparison.
ForbiddenNever(task, user) == FALSE

\* task.user_id != current_user.id and not current_user.is_superuser
Forbidden(task, user) == task.user_id # user /\ ~is_superuser(user)

\* The delete guard testing for a pending task instead of a running one.
DeletablePendingBlocked(task) == task.status # "pending"

\* Lines 236-241: a running task is not deleted.
Deletable(task) == task.status # "running"

\* The cancel guard of api/tasks.py: pending tasks can be cancelled too.
CancelablePendingToo(task) == task.status \in {"pending", "running"}

\* Lines 282-287: only a running task is cancelled.
Cancelable(task) == task.status = "running"

\* The methods class AgentService defines (agent_service.py, lines 186-275).
AgentServiceMethods == {"initialize", "shutdown", "execute_task"}
\* await agent_service.<method>(task.input_data): looking up a method the
\* class does not define raises AttributeError before anything is awaited.
RunAgent(method) ==
  IF method \in AgentServiceMethods THEN "result" ELSE "AttributeError"

\* The processor working on the task it was queued with, whether or not the
\* store still has it.
ProcessedAlways(store, task_id, owner) ==
  Put(store, task_id,
      [user_id |-> IF task_id \in DOMAIN store THEN store[task_id].user_id ELSE owner,
       status |-> IF RunAgent("run_planner") = "result" THEN "completed" ELSE "failed"])

\* process_agent_task (lines 309-361): a task that is not in the store is
\* left alone; otherwise it is set to RUNNING, the agent call fails or
\* succeeds, and the finally block stores the task.
Processed(store, task_id, owner) ==
  IF task_id \notin DOMAIN store THEN store
  ELSE Put(store, task_id,
           [store[task_id] EXCEPT
              !.status = IF RunAgent("run_planner") = "result" THEN "completed"
                         ELSE "failed"])

\* POST /agent/tasks/ (lines 38-86); uuid4 ids are never reused.
create_agent_task(user) ==
  /\ created < MaxTasks
  /\ LET task_id == created + 1 IN
     /\ task_store' = Put(task_store, task_id, [user_id |-> user, status |-> "pending"])
     /\ queued' = queued \cup {task_id}
     /\ reply' = Reply("create", user, task_id, 201, "pending", {})
  /\ created' = created + 1
  /\ UNCHANGED <<deleted, other_vars>>

\* GET /agent/tasks/ without filters (lines 88-117).
list_agent_tasks(user) ==
  /\ reply' = Reply("list", user, 0, 200, "",
                    {id \in DOMAIN task_store : task_store[id].user_id = user})
  /\ UNCHANGED <<task_store, created, queued, deleted, other_vars>>

\* GET /agent/tasks/{task_id} (lines 119-153).
get_agent_task(user, task_id) ==
  /\ reply' =
       IF task_id \notin DOMAIN task_store THEN Reply("get", user, task_id, 404, "", {})
       ELSE IF Forbidden(task_store[task_id], user)
       THEN Reply("get", user, task_id, 403, "", {})
       ELSE Reply("get", user, task_id, 200, task_store[task_id].status, {})
  /\ UNCHANGED <<task_store, created, queued, deleted, other_vars>>

\* PUT /agent/tasks/{task_id} (lines 155-207).
update_agent_task(user, task_id, new_status) ==
  /\ IF task_id \notin DOMAIN task_store
     THEN /\ reply' = Reply("update", user, task_id, 404, "", {})
          /\ UNCHANGED task_store
     ELSE IF Forbidden(task_store[task_id], user)
     THEN /\ reply' = Reply("update", user, task_id, 403, "", {})
          /\ UNCHANGED task_store
     ELSE LET task == IF new_status = "" THEN task_store[task_id]
                      ELSE [task_store[task_id] EXCEPT !.status = new_status]
          IN  /\ task_store' = Put(task_store, task_id, task)
              /\ reply' = Reply("update", user, task_id, 200, task.status, {})
  /\ UNCHANGED <<created, queued, deleted, other_vars>>

\* DELETE /agent/tasks/{task_id} (lines 209-258).
delete_agent_task(user, task_id) ==
  /\ IF task_id \notin DOMAIN task_store
     THEN /\ reply' = Reply("delete", user, task_id, 404, "", {})
          /\ UNCHANGED <<task_store, deleted>>
     ELSE IF Forbidden(task_store[task_id], user)
     THEN /\ reply' = Reply("delete", user, task_id, 403, "", {})
          /\ UNCHANGED <<task_store, deleted>>
     ELSE IF ~Deletable(task_store[task_id])
     THEN /\ reply' = Reply("delete", user, task_id, 400, "", {})
          /\ UNCHANGED <<task_store, deleted>>
     ELSE /\ task_store' = Remove(task_store, task_id)
          /\ deleted' = deleted \cup {task_id}
          /\ reply' = Reply("delete", user, task_id, 204, "", {})
  /\ UNCHANGED <<created, queued, other_vars>>

\* POST /agent/tasks/{task_id}/cancel (lines 260-307).
cancel_agent_task(user, task_id) ==
  /\ IF task_id \notin DOMAIN task_store
     THEN /\ reply' = Reply("cancel", user, task_id, 404, "", {})
          /\ UNCHANGED task_store
     ELSE IF Forbidden(task_store[task_id], user)
     THEN /\ reply' = Reply("cancel", user, task_id, 403, "", {})
          /\ UNCHANGED task_store
     ELSE IF ~Cancelable(task_store[task_id])
     THEN /\ reply' = Reply("cancel", user, task_id, 400, "", {})
          /\ UNCHANGED task_store
     ELSE /\ task_store' = [task_store EXCEPT ![task_id].status = "canceled"]
          /\ reply' = Reply("cancel", user, task_id, 200, "canceled", {})
  /\ UNCHANGED <<created, queued, deleted, other_vars>>

\* The background run of process_agent_task for a created task.
process_agent_task(task_id) ==
  /\ task_id \in queued
  /\ queued' = queued \ {task_id}
  /\ task_store' = Processed(task_store, task_id, "alice")
  /\ reply' = Reply("process", "", task_id, 0, "", {})
  /\ UNCHANGED <<created, deleted, other_vars>>

NextAgent ==
  \/ \E user \in Creators : create_agent_task(user)
  \/ \E user \in Users : list_agent_tasks(user)
  \/ \E user \in Users, task_id \in 1..MaxTasks : get_agent_task(user, task_id)
  \/ \E user \in Users, task_id \in 1..MaxTasks, new_status \in UpdateStatuses :
       update_agent_task(user, task_id, new_status)
  \/ \E user \in Users, task_id \in 1..MaxTasks : delete_agent_task(user, task_id)
  \/ \E user \in Users, task_id \in 1..MaxTasks : cancel_agent_task(user, task_id)
  \/ \E task_id \in 1..MaxTasks : process_agent_task(task_id)

\* Agent task requests of three users and the background processor.
SpecAgent == Init /\ [][NextAgent]_vars

\* --------------------------------------------------------------- liveness
\* One step of the i-th provider call: it starts, or the request it waits on
\* gets its response, its error or its timeout.
CallStep(i) ==
  /\ i \in 1..Len(providers)
  /\ \/ StartCall(i)
     \/ Respond(i)
     \/ RespondError(i)
     \/ Timeout(i)
     \/ NetworkError(i)

\* The event loop runs every coroutine that can run: each call is started,
\* each request ends in a response, an error or the 10 s ClientTimeout
\* (line 322), and search() resumes once the gather has every result.
Fairness ==
  /\ \A i \in 1..Cardinality(SEARCH_PROVIDERS) : WF_vars(CallStep(i))
  /\ WF_vars(Merge)

\* The searches of Spec, every call and the fan-in scheduled fairly.
SpecLive == Init /\ [][Next]_vars /\ Fairness

\* ------------------------------------------------------- the task pipeline
\* api/tasks.py and services/agent_service.py: a task row, the background
\* run of AgentService.execute_task over it, and the requests that change the
\* row meanwhile.  Each `async with get_db()` block (read the row, change it,
\* commit) is one step, and may fail and roll back.
TaskStatus == {"pending", "running", "completed", "failed", "cancelled"}

\* The id the database gave the created row.
TaskId == 1

\* The agents in the order of the loop (line 246).
PIPELINE == <<"planner", "researcher", "developer", "tester">>

\* The message each agent's except clause records.
FailureOf(agent) ==
  CASE agent = "planner"    -> "Planning failed"
    [] agent = "researcher" -> "Research failed"
    [] agent = "developer"  -> "Script generation failed"
    [] agent = "tester"     -> "Testing failed"

\* task = await db.get(Task, task_id); if task: task.status = status;
\* if error: task.error = error; commit.
SetStatus(table, task_id, new_status, new_error) ==
  IF task_id \notin DOMAIN table THEN table
  ELSE [table EXCEPT ![task_id] =
          [status |-> new_status,
           error |-> IF new_error # "" THEN new_error ELSE @.error]]

\* The agent after `agent` in the loop, "return" after the last.
AgentAfter(agent) ==
  LET k == CHOOSE i \in 1..Len(PIPELINE) : PIPELINE[i] = agent
  IN  IF k < Len(PIPELINE) THEN PIPELINE[k + 1] ELSE "return"

\* The loop going on to the next agent whatever the context holds.
LoopNextIgnoringErrors(agent, errors) == AgentAfter(agent)

\* Lines 251-254: after an agent, the loop breaks when the context has errors.
LoopNext(agent, errors) ==
  IF errors # <<>> THEN "return" ELSE AgentAfter(agent)

\* create_task (lines 48-93): the row is committed with the default status
\* and run_task_in_background is queued; a failed commit is rolled back and
\* answered 500.
create_task(db_ok) ==
  /\ pc = "none"
  /\ TaskId \notin DOMAIN tasks
  /\ IF db_ok
     THEN /\ tasks' = Put(tasks, TaskId, [status |-> "pending", error |-> ""])
          /\ pc' = "queued"
          /\ task_reply' = [op |-> "create", code |-> 201]
     ELSE /\ UNCHANGED <<tasks, pc>>
          /\ task_reply' = [op |-> "create", code |-> 500]
  /\ UNCHANGED <<context, executed, task_result, search_vars, pager, parsed, http,
                 agent_vars>>

\* run_task_in_background calls execute_task, which builds the context and
\* enters the loop (lines 29-42, 229-246).
run_task_in_background ==
  /\ pc = "queued"
  /\ context' = [errors |-> <<>>]
  /\ pc' = "planner"
  /\ UNCHANGED <<tasks, executed, task_result, task_reply, search_vars, pager, parsed, http,
                 agent_vars>>

\* PlannerAgent.execute up to its try block (lines 67-72): the status update
\* sits outside the try, so its failure leaves the agent as an exception.
PlannerStatus(db_ok) ==
  /\ pc = "planner"
  /\ executed' = Append(executed, "planner")
  /\ IF db_ok
     THEN /\ tasks' = SetStatus(tasks, TaskId, "running", "")
          /\ pc' = "planner_work"
     ELSE /\ tasks' = tasks
          /\ pc' = "except"
  /\ UNCHANGED <<context, task_result, task_reply, search_vars, pager, parsed, http, agent_vars>>

\* The planner's try block (lines 74-86): the planning, or its failure
\* recorded in the context.
PlannerWork(work_ok) ==
  /\ pc = "planner_work"
  /\ IF work_ok
     THEN /\ context' = context
          /\ pc' = LoopNext("planner", context.errors)
     ELSE /\ context' = [context EXCEPT !.errors = Append(@, FailureOf("planner"))]
          /\ pc' = "planner_failed"
  /\ UNCHANGED <<tasks, executed, task_result, task_reply, search_vars, pager, parsed, http,
                 agent_vars>>

\* The planner's except clause marking the task FAILED (line 86).
PlannerFailed(db_ok) ==
  /\ pc = "planner_failed"
  /\ IF db_ok
     THEN /\ tasks' = SetStatus(tasks, TaskId, "failed", FailureOf("planner"))
          /\ pc' = LoopNext("planner", context.errors)
     ELSE /\ tasks' = tasks
          /\ pc' = "except"
  /\ UNCHANGED <<context, executed, task_result, task_reply, search_vars, pager, parsed, http,
                 agent_vars>>

\* ResearchAgent.execute and DeveloperAgent.execute (lines 104-120, 127-143):
\* the work, or its failure recorded in the context; the row is not touched.
Work(agent, work_ok) ==
  /\ pc = agent
  /\ executed' = Append(executed, agent)
  /\ LET errors == IF work_ok THEN context.errors
                   ELSE Append(context.errors, FailureOf(agent))
     IN  /\ context' = [context EXCEPT !.errors = errors]
         /\ pc' = LoopNext(agent, errors)
  /\ UNCHANGED <<tasks, task_result, task_reply, search_vars, pager, parsed, http, agent_vars>>

Researcher(work_ok) == Work("researcher", work_ok)
Developer(work_ok) == Work("developer", work_ok)

\* TesterAgent.execute up to its database block (lines 150-163).
TesterWork(work_ok) ==
  /\ pc = "tester"
  /\ executed' = Append(executed, "tester")
  /\ IF work_ok
     THEN /\ context' = context
          /\ pc' = IF context.errors = <<>> THEN "tester_commit"
                   ELSE LoopNext("tester", context.errors)
     ELSE /\ context' = [context EXCEPT !.errors = Append(@, FailureOf("tester"))]
          /\ pc' = "tester_failed"
  /\ UNCHANGED <<tasks, task_result, task_reply, search_vars, pager, parsed, http, agent_vars>>

\* The tester marking the task COMPLETED (lines 164-169); a failure of the
\* block is caught by the tester's except clause.
TesterCommit(db_ok) ==
  /\ pc = "tester_commit"
  /\ IF db_ok
     THEN /\ tasks' = SetStatus(tasks, TaskId, "completed", "")
          /\ context' = context
          /\ pc' = LoopNext("tester", context.errors)
     ELSE /\ tasks' = tasks
          /\ context' = [context EXCEPT !.errors = Append(@, FailureOf("tester"))]
          /\ pc' = "tester_failed"
  /\ UNCHANGED <<executed, task_result, task_reply, search_vars, pager, parsed, http, agent_vars>>

\* The tester's except clause marking the task FAILED (lines 176-182).
TesterFailed(db_ok) ==
  /\ pc = "tester_failed"
  /\ IF db_ok
     THEN /\ tasks' = SetStatus(tasks, TaskId, "failed", FailureOf("tester"))
          /\ pc' = LoopNext("tester", context.errors)
     ELSE /\ tasks' = tasks
          /\ pc' = "except"
  /\ UNCHANGED <<context, executed, task_result, task_reply, search_vars, pager, parsed, http,
                 agent_vars>>

\* The return after the loop (lines 253-257).
ReturnResult ==
  /\ pc = "return"
  /\ task_result' = [returned |-> TRUE, success |-> context.errors = <<>>,
                     error |-> "", errors |-> context.errors]
  /\ pc' = "returned"
  /\ UNCHANGED <<tasks, context, executed, task_reply, search_vars, pager, parsed, http,
                 agent_vars>>

\* execute_task's except clause (lines 258-275): mark the task FAILED and
\* return; a failure of that block leaves execute_task as an exception, which
\* run_task_in_background logs (lines 44-45).
ExecuteFailed(db_ok) ==
  /\ pc = "except"
  /\ IF db_ok
     THEN /\ tasks' = SetStatus(tasks, TaskId, "failed", "Task execution failed")
          /\ task_result' = [returned |-> TRUE, success |-> FALSE,
                             error |-> "Task execution failed",
                             errors |-> <<"Task execution failed">> \o context.errors]
          /\ pc' = "returned"
     ELSE /\ UNCHANGED <<tasks, task_result>>
          /\ pc' = "raised"
  /\ UNCHANGED <<context, executed, task_reply, search_vars, pager, parsed, http, agent_vars>>

\* POST /tasks/{task_id}/cancel by the owner (lines 280-337): a PENDING or
\* RUNNING task becomes CANCELLED; nothing stops the background run.
cancel_task(db_ok) ==
  /\ IF ~db_ok
     THEN /\ task_reply' = [op |-> "cancel", code |-> 500]
          /\ tasks' = tasks
     ELSE IF TaskId \notin DOMAIN tasks
     THEN /\ task_reply' = [op |-> "cancel", code |-> 404]
          /\ tasks' = tasks
     ELSE IF tasks[TaskId].status \notin {"pending", "running"}
     THEN /\ task_reply' = [op |-> "cancel", code |-> 400]
          /\ tasks' = tasks
     ELSE /\ task_reply' = [op |-> "cancel", code |-> 200]
          /\ tasks' = SetStatus(tasks, TaskId, "cancelled", "Task was cancelled by user")
  /\ UNCHANGED <<pc, context, executed, task_result, search_vars, pager, parsed, http,
                 agent_vars>>

\* DELETE /tasks/{task_id} by the owner (lines 230-277).
delete_task(db_ok) ==
  /\ IF ~db_ok
     THEN /\ task_reply' = [op |-> "delete", code |-> 500]
          /\ tasks' = tasks
     ELSE IF TaskId \notin DOMAIN tasks
     THEN /\ task_reply' = [op |-> "delete", code |-> 404]
          /\ tasks' = tasks
     ELSE /\ task_reply' = [op |-> "delete", code |-> 204]
          /\ tasks' = Remove(tasks, TaskId)
  /\ UNCHANGED <<pc, context, executed, task_result, search_vars, pager, parsed, http,
                 agent_vars>>

NextPipeline ==
  \/ \E db_ok \in BOOLEAN : create_task(db_ok)
  \/ run_task_in_background
  \/ \E db_ok \in BOOLEAN : PlannerStatus(db_ok)
  \/ \E work_ok \in BOOLEAN : PlannerWork(work_ok)
  \/ \E db_ok \in BOOLEAN : PlannerFailed(db_ok)
  \/ \E work_ok \in BOOLEAN : Researcher(work_ok)
  \/ \E work_ok \in BOOLEAN : Developer(work_ok)
  \/ \E work_ok \in BOOLEAN : TesterWork(work_ok)
  \/ \E db_ok \in BOOLEAN : TesterCommit(db_ok)
  \/ \E db_ok \in BOOLEAN : TesterFailed(db_ok)
  \/ ReturnResult
  \/ \E db_ok \in BOOLEAN : ExecuteFailed(db_ok)
  \/ \E db_ok \in BOOLEAN : cancel_task(db_ok)
  \/ \E db_ok \in BOOLEAN : delete_task(db_ok)

\* One task, its background run, and the owner's cancel and delete requests.
SpecPipeline == Init /\ [][NextPipeline]_vars

\* ------------------------------------------------------------------ claims
Calls == 1..Len(providers)
Returned == phase = "done"
Finished == phase \in {"done", "raised"}

\* The provider call was made and failed: non-200 status, timeout or a
\* network error.  _search_provider reports each as a dict with an "error".
CallFailed(i) == status[i] = "settled" /\ ~outcome[i].exc /\ outcome[i].error # ""
\* The provider call returned 200 and was parsed.
CallSucceeded(i) == status[i] = "settled" /\ ~outcome[i].exc /\ outcome[i].error = ""

InSeq(x, seq) == \E k \in 1..Len(seq) : seq[k] = x
ErrorKeys == IF response.provider_errors.is_none THEN {}
             ELSE DOMAIN response.provider_errors.entries

\* C1: once provider calls have been issued, search() returns whatever subset
\* of them fails, and every item of every provider that succeeded is in the
\* pool that is deduplicated, ranked and paginated.
C1_PartialFailureIsolation ==
  (Finished /\ \E i \in Calls : requests[i] > 0) =>
    /\ Returned
    /\ \A i \in Calls : CallSucceeded(i) =>
         \A k \in 1..Len(outcome[i].items) : InSeq(outcome[i].items[k], aggregated_results)

\* A search that returned although its first call failed, with the item of
\* the second call in the pool.
C1_Witness ==
  /\ Returned
  /\ Len(providers) = 2
  /\ CallFailed(1)
  /\ CallSucceeded(2)
  /\ outcome[2].items # <<>>
  /\ InSeq(outcome[2].items[1], aggregated_results)

\* C2: the provider_errors map of the response has an entry for a provider
\* if and only if a call to that provider failed.
C2_ErrorsIffFailed ==
  Returned =>
    \A p \in SEARCH_PROVIDERS :
      (p \in ErrorKeys) <=> (\E i \in Calls : providers[i] = p /\ CallFailed(i))

\* C3: when every requested provider fails, search() returns an empty result
\* list, total_results 0 and a provider_errors entry for every provider.
C3_AllProvidersFail ==
  (Finished /\ providers # <<>> /\ \A i \in Calls : CallFailed(i)) =>
    /\ Returned
    /\ response.results = <<>>
    /\ response.total_results = 0
    /\ \A i \in Calls : providers[i] \in ErrorKeys

\* C4: a request whose provider list is non-empty and names no registered
\* provider ends with the ValueError, with no provider coroutine created, no
\* rate-limit gate call and no outbound request.
C4_ZeroProviderRejection ==
  (phase # "idle" /\ request.providers # <<>>
     /\ \A k \in 1..Len(request.providers) : request.providers[k] \notin SEARCH_PROVIDERS) =>
    /\ phase = "raised"
    /\ error = "ValueError: No valid search providers specified"
    /\ status = <<>>
    /\ gate_calls = <<>>
    /\ requests = <<>>

\* A rejected request that named two unregistered providers.
C4_Witness ==
  /\ phase = "raised"
  /\ Len(request.providers) = 2
  /\ \A k \in 1..Len(request.providers) : request.providers[k] \notin SEARCH_PROVIDERS
  /\ error = "ValueError: No valid search providers specified"

\* Position of call i in the completion order.
CompletedAt(i) == CHOOSE k \in 1..Len(completion_order) : completion_order[k] = i
\* The calls that succeeded and returned an item with this url.
Holders(url) ==
  {i \in Calls : CallSucceeded(i)
                 /\ \E k \in 1..Len(outcome[i].items) : outcome[i].items[k].url = url}
\* The first item with this url in the list of call i.
FirstOf(i, url) ==
  LET items == outcome[i].items
      k == CHOOSE k \in 1..Len(items) :
             items[k].url = url /\ \A j \in 1..(k - 1) : items[j].url # url
  IN  items[k]

C6_DedupFirstWins ==
  Finished =>
    /\ \A i, j \in 1..Len(deduped_results) :
         deduped_results[i].url = deduped_results[j].url => i = j
    /\ \A i, j \in 1..Len(response.results) :
         response.results[i].url = response.results[j].url => i = j
    /\ \A i \in 1..Len(deduped_results) : deduped_results[i].url # ""
    /\ \A k \in 1..Len(aggregated_results) :
         LET url == aggregated_results[k].url IN
         (url # "" /\ \A j \in 1..(k - 1) : aggregated_results[j].url # url) =>
           InSeq(aggregated_results[k], deduped_results)

\* A pool with an item without url and two different items of one url.
C6_Witness ==
  /\ Returned
  /\ \E k \in 1..Len(aggregated_results) : aggregated_results[k].url = ""
  /\ \E j, k \in 1..Len(aggregated_results) :
       /\ j < k
       /\ aggregated_results[j].url = aggregated_results[k].url
       /\ aggregated_results[j] # aggregated_results[k]
       /\ InSeq(aggregated_results[j], deduped_results)

\* The fixed priority order of the provider labels; any other label comes last.
C7_Priority(label) ==
  LET order == <<"google", "bing", "duckduckgo", "reddit", "github">>
  IN  IF \E k \in 1..Len(order) : order[k] = label
      THEN CHOOSE k \in 1..Len(order) : order[k] = label
      ELSE Len(order) + 1

\* C7: the ranked sequence is a permutation of the deduplicated one, in
\* descending score, and among equal scores in ascending provider priority.
C7_RankedByScoreThenPriority ==
  Finished =>
    /\ Len(sorted_results) = Len(deduped_results)
    /\ \A k \in 1..Len(deduped_results) : InSeq(deduped_results[k], sorted_results)
    /\ \A i, j \in 1..Len(sorted_results) :
         i < j =>
           \/ sorted_results[i].score > sorted_results[j].score
           \/ /\ sorted_results[i].score = sorted_results[j].score
              /\ C7_Priority(sorted_results[i].provider) <= C7_Priority(sorted_results[j].provider)

\* Two items of equal score arrived with the lower-priority label first (a
\* label outside the table among them) and were ranked the other way round.
C7_Witness ==
  /\ Returned
  /\ Len(deduped_results) = 2
  /\ deduped_results[1].score = deduped_results[2].score
  /\ deduped_results[1].provider = "duckduckgo_related"
  /\ C7_Priority(deduped_results[2].provider) < C7_Priority(deduped_results[1].provider)
  /\ sorted_results = <<deduped_results[2], deduped_results[1]>>

UrlsOf(seq) == [k \in 1..Len(seq) |-> seq[k].url]
\* The ranked urls had the item lists been concatenated in this order of the calls.
RankedUrlsIfCollected(order) ==
  LET lists == [k \in 1..Len(order) |->
                  IF outcome[order[k]].exc THEN <<>> ELSE outcome[order[k]].items]
      Concat[k \in 0..Len(order)] == IF k = 0 THEN <<>> ELSE Concat[k - 1] \o lists[k]
  IN  UrlsOf(sorted(Deduplicate(Concat[Len(order)])))

\* C8: the urls of the ranked output are those of the request-order
\* concatenation of the providers' items, whatever the completion order was:
\* runs that differ only in completion timing rank the same url sequence.
C8_OrderDeterminism ==
  Returned => UrlsOf(sorted_results) = RankedUrlsIfCollected([k \in Calls |-> k])

\* A run whose calls completed in the reverse of the request order, where
\* concatenating in completion order would have ranked the urls differently.
C8_Witness ==
  /\ Returned
  /\ completion_order = <<2, 1>>
  /\ RankedUrlsIfCollected(completion_order) # UrlsOf(sorted_results)

\* C9: the results are the window [offset, offset + limit) of the ranked
\* sequence: min(limit, total_results - offset) items when offset is below
\* total_results, none otherwise, in ranked order.
C9_Pagination ==
  Returned =>
    LET total == response.total_results
        n == Len(response.results)
    IN  /\ request.offset < total => n = Min(request.limit, total - request.offset)
        /\ request.offset >= total => n = 0
        /\ \A k \in 1..n : response.results[k] = sorted_results[request.offset + k]

\* A page that starts inside the ranked sequence, after its first item, and
\* is cut short by its end.
C9_Witness ==
  /\ Returned
  /\ request.offset > 0
  /\ request.offset < response.total_results
  /\ Len(response.results) = response.total_results - request.offset
  /\ Len(response.results) < request.limit

\* The non-empty urls the successful calls returned.
ReturnedUrls ==
  {url \in Urls \cup {RedditUrl("")} : url # "" /\ Holders(url) # {}}

\* C10: total_results is the number of deduplicated items, which is the
\* number of distinct non-empty urls the providers returned; the page window
\* has no part in it.
C10_TotalResults ==
  Returned =>
    /\ response.total_results = Len(deduped_results)
    /\ response.total_results = Cardinality(ReturnedUrls)

\* A response whose page is shorter than total_results, after a merge that
\* dropped a duplicate.
C10_Witness ==
  /\ Returned
  /\ Len(response.results) < response.total_results
  /\ Len(deduped_results) < Len(aggregated_results)
  /\ request.offset > 0

PagerDone ==
  pager.active /\ pager.offset >= Cardinality(DistinctUrls(pager.upstream))
\* The places (page, position) where the pages of the session show this url.
PagePlaces(url) ==
  {pk \in (1..Len(pager.pages)) \X (1..MaxLimit) :
     pk[2] <= Len(pager.pages[pk[1]]) /\ pager.pages[pk[1]][pk[2]] = url}

\* C11: with an unchanged upstream list, the pages at offsets 0, limit,
\* 2*limit, ... of one query show every distinct upstream url on exactly one
\* page: the offset is applied once, to the merged ranked sequence.
C11_EveryResultOnOnePage ==
  PagerDone =>
    \A url \in DistinctUrls(pager.upstream) : Cardinality(PagePlaces(url)) = 1

\* The label a parser of this provider puts on an item.
LabelOf(provider, label) ==
  label = provider \/ (provider = "duckduckgo" /\ label = "duckduckgo_related")

\* C12: the gather hands search() exactly one outcome per dispatched
\* provider, in the order of the resolved provider list and of its length:
\* outcome i is what the call made for provider i returned or raised.
C12_OneOutcomePerProvider ==
  (Finished /\ providers # <<>>) =>
    /\ Len(results) = Len(providers)
    /\ \A i \in Calls :
         /\ results[i] = outcome[i]
         /\ \A k \in 1..Len(results[i].items) :
              LabelOf(providers[i], results[i].items[k].provider)

\* Two providers of which the second settled first: the first outcome is
\* still the item list of the first provider, the second the failure of
\* the second.
C12_Witness ==
  /\ Returned
  /\ Len(providers) = 2
  /\ completion_order = <<2, 1>>
  /\ Len(results) = 2
  /\ results[1].items # <<>>
  /\ results[1].items[1].provider = providers[1]
  /\ results[2].error = "Request timed out"

Outstanding(i) == status[i] \in {"pending", "issued"}
Untouched ==
  /\ results = <<>>
  /\ aggregated_results = <<>>
  /\ deduped_results = <<>>
  /\ sorted_results = <<>>
  /\ response = NoResponse

\* C13: the merge is behind a fan-in barrier.  While any dispatched provider
\* call is outstanding nothing has been collected, deduplicated or ranked
\* and no response exists; a search that has ended has every call settled.
C13_FanInBarrier ==
  /\ (\E i \in Calls : Outstanding(i)) => (phase = "gathering" /\ Untouched)
  /\ (Finished /\ providers # <<>>) => \A i \in Calls : status[i] = "settled"

\* The first call has returned an item while the second is still in flight:
\* the search is waiting and has merged nothing.
C13_Witness ==
  /\ phase = "gathering"
  /\ Len(providers) = 2
  /\ CallSucceeded(1)
  /\ outcome[1].items # <<>>
  /\ status[2] = "issued"
  /\ Untouched

CountOf(step, log) == Cardinality({k \in 1..Len(log) : log[k] = step})

\* C14: every outbound request of a provider call comes right after a
\* _rate_limit call for that provider that has returned; no request is sent
\* without its gate call.
C14_GateBeforeRequest ==
  \A i \in Calls :
    /\ \A k \in 1..Len(call_log[i]) :
         call_log[i][k] = "session.get" =>
           (k > 1 /\ call_log[i][k - 1] = "_rate_limit")
    /\ CountOf("session.get", call_log[i]) = requests[i]
    /\ CountOf("_rate_limit", call_log[i]) = gate_calls[i]
    /\ requests[i] <= gate_calls[i]

\* A call whose request is in flight: the gate was passed first.
C14_Witness ==
  /\ phase = "gathering"
  /\ \E i \in Calls :
       /\ status[i] = "issued"
       /\ requests[i] = 1
       /\ call_log[i] = <<"_rate_limit", "session.get">>

\* The keys of the registry, in the order of the SearchProvider enum.
RegisteredInOrder == <<"google", "bing", "duckduckgo", "reddit", "github">>
Dispatched == [i \in DOMAIN status |-> providers[i]]

\* C15: once the request's provider list is defaulted and filtered, the
\* dispatched list is a non-empty list of registered providers: a missing or
\* empty list stands for every registered provider, a given list keeps its
\* registered ids in their order, an unregistered id gets no call, and
\* providers_used of the response is the dispatched list.
C15_DispatchedProviders ==
  /\ phase \in {"gathering", "done"} =>
       /\ Dispatched # <<>>
       /\ Dispatched = providers
       /\ \A i \in Calls : providers[i] \in SEARCH_PROVIDERS
       /\ request.providers = <<>> => providers = RegisteredInOrder
       /\ request.providers # <<>> =>
            providers = SelectSeq(request.providers,
                                  LAMBDA p : \E k \in 1..Len(RegisteredInOrder) :
                                               RegisteredInOrder[k] = p)
  /\ phase = "raised" /\ providers = <<>> => Dispatched = <<>>
  /\ Returned => response.providers_used = Dispatched

\* A request without provider list that returned: five calls, one per
\* registered provider, all named in providers_used.
C15_Witness ==
  /\ Returned
  /\ request.providers = <<>>
  /\ Len(status) = Len(RegisteredInOrder)
  /\ \A i \in Calls : requests[i] = 1
  /\ response.providers_used = RegisteredInOrder

\* The call was answered 200 and its provider had no parser.
ViaFallback(i) ==
  status[i] = "settled" /\ ~outcome[i].exc /\ outcome[i].error = "No parser available"

WasCancelled == error = "CancelledError" \/ \E i \in Calls : status[i] = "cancelled"

\* C17: when a search in flight is cancelled from outside, no provider call
\* stays outstanding, and the search returns a response made of the results
\* of the calls that had completed; it ends with the cancellation error only
\* if no call had completed when it was cancelled.
C17_PartialResultsOnCancel ==
  (WasCancelled /\ request.limit > 0) =>
    /\ \A i \in Calls : status[i] \in {"settled", "cancelled"}
    /\ IF completion_order = <<>>
       THEN phase = "raised" /\ error = "CancelledError"
       ELSE /\ Returned
            /\ \A i \in Calls : CallSucceeded(i) =>
                 \A k \in 1..Len(outcome[i].items) :
                   InSeq(outcome[i].items[k], aggregated_results)

\* C18: nothing is retried.  A provider call never sends a second request,
\* and every call that came back, with results, an API error, a timeout or
\* a network error, has sent exactly one; so has every call of a search
\* that returned.
C18_NoRetry ==
  /\ \A i \in Calls : requests[i] <= 1
  /\ \A i \in Calls : (CallFailed(i) \/ CallSucceeded(i)) => requests[i] = 1
  /\ Returned => \A i \in Calls : requests[i] = 1

\* A search that returned after the call to its first provider timed out:
\* that provider was asked once.
C18_Witness ==
  /\ Returned
  /\ Len(providers) = 2
  /\ outcome[1].error = "Request timed out"
  /\ requests[1] = 1
  /\ CallSucceeded(2)
  /\ requests[2] = 1

ScoreInRange(item) == 0 <= item.score /\ item.score <= 1000

\* C19: every item a parser produces has a score between 0.0 and 1.0
\* whatever the length of the payload, and the scores of one provider's item
\* list strictly decrease from one position to the next.
C19_ScoresInRangeDecreasing ==
  \A k \in 1..Len(parsed.items) :
    /\ ScoreInRange(parsed.items[k])
    /\ k > 1 => parsed.items[k - 1].score > parsed.items[k].score

\* The first sighting of every non-empty url, in order of arrival.
FirstSightings(urls) ==
  LET first == {k \in 1..Len(urls) :
                  urls[k] # "" /\ \A j \in 1..(k - 1) : urls[j] # urls[k]}
      Keep[k \in 0..Len(urls)] ==
        IF k = 0 THEN <<>>
        ELSE IF k \in first THEN Append(Keep[k - 1], urls[k]) ELSE Keep[k - 1]
  IN  Keep[Len(urls)]

\* C20: deduplication is idempotent and a function of the urls in arrival
\* order: deduplicating the deduplicated list changes nothing,
\* deduplicating the collected list again gives the same list, and the urls
\* kept are the first sightings among the urls collected.
C20_DedupIdempotent ==
  (phase \in {"done", "raised"} /\ providers # <<>>) =>
    /\ Deduplicate(deduped_results) = deduped_results
    /\ Deduplicate(aggregated_results) = deduped_results
    /\ UrlsOf(deduped_results) = FirstSightings(UrlsOf(aggregated_results))

\* Two of the collected items were dropped as duplicates, and a second
\* pass over what was kept drops nothing more.
C20_Witness ==
  /\ Returned
  /\ Len(aggregated_results) >= Len(deduped_results) + 2
  /\ deduped_results # <<>>
  /\ Deduplicate(deduped_results) = deduped_results

\* C21: with at least one resolvable provider and a limit and an offset that
\* are not negative, limit 0 included, search() returns a response; the
\* only exception that leaves search() is the ValueError for a request
\* without resolvable provider.
C21_OnlyValidationErrorPropagates ==
  /\ (Finished /\ providers # <<>>) => Returned
  /\ phase = "raised" =>
       (providers = <<>> /\ error = "ValueError: No valid search providers specified")

\* C22: the reply of the POST search endpoint carries what the service
\* produced: its results are the page of items search() returned and its
\* total_results is the total_results of search().
C22_EndpointReturnsResults ==
  http.code = 200 =>
    /\ http.results = response.results
    /\ http.total_results = response.total_results


\* The caller of the last request owns the task or is the superuser.
Permitted(store, task_id, user) ==
  store[task_id].user_id = user \/ user = "root"

\* The two stores agree on every task except the addressed one.
SameElsewhere(before, after, task_id) ==
  /\ DOMAIN after \ {task_id} = DOMAIN before \ {task_id}
  /\ \A k \in DOMAIN after \ {task_id} : after[k] = before[k]

C25_AccessControl ==
  [][/\ (/\ reply'.op \in {"get", "update", "delete", "cancel"}
         /\ reply'.task_id \in DOMAIN task_store
         /\ ~Permitted(task_store, reply'.task_id, reply'.user))
       => /\ reply'.code = 403
          /\ task_store' = task_store
     /\ reply'.op = "list"
       => /\ \A k \in reply'.listed :
               k \in DOMAIN task_store /\ task_store[k].user_id = reply'.user
          /\ task_store' = task_store]_vars

\* A cancel of a running task refused with 403 while the caller's own list
\* would be a different task.
C25_Witness ==
  /\ reply.op = "cancel"
  /\ reply.code = 403
  /\ reply.task_id \in DOMAIN task_store
  /\ task_store[reply.task_id].status = "running"
  /\ \E k \in DOMAIN task_store : task_store[k].user_id = reply.user

\* C30: an id that delete_agent_task has removed is not a key of task_store
\* again, whatever the order of the requests and of the background processor.
C30_DeletedStaysDeleted ==
  \A task_id \in deleted : task_id \notin DOMAIN task_store

\* The processor ran for a task after the task was deleted.
C30_Witness ==
  /\ reply.op = "process"
  /\ reply.task_id \in deleted
  /\ reply.task_id \notin DOMAIN task_store


\* C26: a search that has dispatched its provider calls eventually passes the
\* fan-in barrier and returns a response, every call being answered, failed
\* or timed out.
C26_SearchReturns == (phase = "gathering") ~> Returned


\* The agents run so far are the first ones of the fixed order, each once.
RanInOrder ==
  /\ Len(executed) <= Len(PIPELINE)
  /\ \A k \in 1..Len(executed) : executed[k] = PIPELINE[k]

\* C27 as stated: the agents run in the order planner, researcher, developer,
\* tester, each at most once; no agent runs once the context holds an error;
\* and whenever execute_task has returned, its success flag is true exactly
\* when the context holds no errors.
C27_SuccessIffNoContextErrors ==
  /\ [](RanInOrder /\ (task_result.returned =>
                         (task_result.success <=> context.errors = <<>>)))
  /\ [][context.errors # <<>> => executed' = executed]_vars

\* C27 amended: the same order and stop rule; the success flag is true
\* exactly when the run ended by the return after the loop, no exception
\* having left an agent, and the context holds no errors.  A run that ends in
\* execute_task's except clause returns success false whatever the context
\* holds.
C27_SuccessIffNoErrorNoException ==
  /\ [](RanInOrder /\ (task_result.returned =>
                         (task_result.success <=>
                            (context.errors = <<>> /\ task_result.error = ""))))
  /\ [][context.errors # <<>> => executed' = executed]_vars

\* A run the researcher's error ended: two agents ran, success is false.
C27_Witness ==
  /\ task_result.returned
  /\ executed = <<"planner", "researcher">>
  /\ context.errors = <<"Research failed">>
  /\ ~task_result.success

\* C28: once the row is CANCELLED, no step changes its status while the row
\* exists.
C28_CancelledStaysCancelled ==
  [][(/\ TaskId \in DOMAIN tasks
      /\ tasks[TaskId].status = "cancelled"
      /\ TaskId \in DOMAIN tasks')
       => tasks'[TaskId].status = "cancelled"]_vars

====
